---- MODULE Spec2Model ----
(***************************************************************************)
(* Ingestion and caching layer of the power-market preview service.        *)
(*                                                                         *)
(* Two deployments share one read contract:                                *)
(*   "server"  server.js + kafka-consumer.js: a long-running consumer that *)
(*             caches messages in the in-process Map dataStore;            *)
(*   "vercel"  the cron function (fetch-kafka) that copies messages into   *)
(*             the KV store during a time-boxed invocation, read back by   *)
(*             the serverless endpoints api/exchanges/[date].js,           *)
(*             api/dates.js and the status function.                       *)
(*                                                                         *)
(* Strings that the code takes apart (keys, dates, topics) are sequences   *)
(* of one-character strings, so that template strings, startsWith, split   *)
(* and sort are computed as the code computes them.                        *)
(***************************************************************************)
EXTENDS Integers, Sequences, FiniteSets, TLC

\* ---------------------------------------------------------------- bounds
\* Valid (dated, parseable) messages the broker delivers in one behaviour;
\* each one advances the logical clock that stands for new Date().
MaxClock == 2
\* Invocations of the cron function in one behaviour.
MaxRuns == 2
\* Shutdown signals the long-running process receives in one behaviour.
MaxSignals == 2
\* Length of the log that every run of the cron function reads from its start.
MaxLog == 2
\* Messages applied to both stores side by side in one behaviour.
MaxApplied == 3
MaxFetches == 3

\* ---------------------------------------------------------------- state
VARIABLES
    deployment,      \* "server" or "vercel": which of the two topologies runs
    host,            \* process.env and the files of the host, as far as the code reads them
    proc,            \* the process of server.js: start(), signal handlers, exit
    broker,          \* what the topics deliver: any message, or a fixed log from its start
    clock,           \* logical time for new Date().toISOString()
    \* kafka-consumer.js module state
    dataStore,       \* Map keyed by "topic:date"
    consumerStatus,
    lastMessageAt,   \* 0 is null
    kafkaConsumer,   \* FALSE is null
    startPc,         \* position of startConsumer()
    \* Vercel KV (Redis) and the cron function
    kv,              \* key -> [type, text, members]
    cronSecret,      \* process.env.CRON_SECRET
    live,            \* invocation slots in use
    job,             \* per invocation: the locals of handler() and its consumer
    runs,            \* invocations started so far
    \* observation of the message stream
    msg,             \* the message last handed to eachMessage
    lastResult,      \* what became of it: "none", "skipped", "pending", "applied", "failed"; "unobserved" throughout where the stream is not observed
    prev,            \* how it follows the one before: "again", "afterSkip", "other"
    before,          \* the cache contents when it was handed over
    \* the browser
    table            \* a table component: its props, state and the fetches its effects started

serverVars == <<dataStore, consumerStatus, lastMessageAt, kafkaConsumer, startPc>>
cronVars == <<kv, job, runs>>
streamVars == <<msg, lastResult, prev, before>>
vars == <<deployment, host, proc, broker, clock, dataStore, consumerStatus, lastMessageAt, kafkaConsumer,
          startPc, kv, cronSecret, live, job, runs, msg, lastResult, prev,
          before, table>>

\* ---------------------------------------------------------------- strings
cables == <<"c", "a", "b", "l", "e", "s">>
exchanges == <<"e", "x", "c", "h", "a", "n", "g", "e", "s">>
\* (process.env.KAFKA_TOPICS || 'cables,exchanges').split(',')
Topics == {cables, exchanges}

datesSuffix == <<"d", "a", "t", "e", "s">>
lastSyncAtKey == <<"l", "a", "s", "t", "S", "y", "n", "c", "A", "t">>

\* Message dates seen on the topics: two well-formed days and one that the
\* producer wrote without zero padding (the consumer accepts any truthy date).
D27 == <<"2", "0", "2", "6", "-", "0", "2", "-", "2", "7">>
D28 == <<"2", "0", "2", "6", "-", "0", "2", "-", "2", "8">>
DShort == <<"2", "0", "2", "6", "-", "2", "-", "2", "8">>
\* a date that the producer wrote with the time of day
DStamp == <<"2", "0", "2", "6", "-", "0", "2", "-", "2", "7", "T", "1", "0", ":", "0", "0">>
Dates == {D27, D28, DShort}
\* Opaque rest of a payload document.
Bodies == {"A", "B"}

\* Characters in ascending UTF-16 code unit order (what Array.prototype.sort
\* and string comparison use).
Alphabet == <<"-", "/", "0", "1", "2", "3", "4", "5", "6", "7", "8", "9", ":",
              "A", "S", "T", "a", "b", "c", "d", "e", "g", "h", "l", "n", "s", "t", "x", "y">>
CharCode(c) == CHOOSE i \in 1..Len(Alphabet) : Alphabet[i] = c
Digits == {"0", "1", "2", "3", "4", "5", "6", "7", "8", "9"}

RECURSIVE StrLess(_, _)
\* a < b for JavaScript strings
StrLess(a, b) ==
    IF b = <<>> THEN FALSE
    ELSE IF a = <<>> THEN TRUE
    ELSE IF Head(a) = Head(b) THEN StrLess(Tail(a), Tail(b))
    ELSE CharCode(Head(a)) < CharCode(Head(b))

\* key.startsWith(prefix)
startsWith(s, prefix) ==
    /\ Len(s) >= Len(prefix)
    /\ SubSeq(s, 1, Len(prefix)) = prefix

\* position of the first ':' at or after position from, or Len(s)+1
RECURSIVE NextColon(_, _)
NextColon(s, from) ==
    IF from > Len(s) THEN Len(s) + 1
    ELSE IF s[from] = ":" THEN from
    ELSE NextColon(s, from + 1)

\* key.split(':')[1]; a key without ':' has no second part (undefined),
\* which does not occur for the keys the consumer builds
splitSecond(s) ==
    LET c1 == NextColon(s, 1)
        c2 == NextColon(s, c1 + 1)
    IN  SubSeq(s, c1 + 1, c2 - 1)

\* isDateFormat that only asks for a non-empty date
isDateFormatAny(d) == Len(d) > 0

\* /^\d{4}-\d{2}-\d{2}$/.test(date)
isDateFormat(d) ==
    /\ Len(d) = 10
    /\ \A i \in {1, 2, 3, 4, 6, 7, 9, 10} : d[i] \in Digits
    /\ d[5] = "-"
    /\ d[8] = "-"

\* `${topic}:${messageDate}`
keyOf(topic, date) == topic \o <<":">> \o date
\* `${topic}:dates`
datesKeyOf(topic) == topic \o <<":">> \o datesSuffix

\* ---------------------------------------------------------------- messages
\* A raw broker message: its topic and its value.  form is what the bytes
\* are: "absent" (message.value is null), "garbage" (not JSON), "null" (the
\* JSON text null), "object" (a JSON object).  An object has a date member
\* or not (hasDate), the date may be the empty string, and ws tells apart
\* two texts of the same document (insignificant white space).
NoDate == <<>>
Message(t, f, h, d, b, w) ==
    [topic |-> t, form |-> f, hasDate |-> h, date |-> d, body |-> b, ws |-> w]
\* messages eachMessage skips: no value, not JSON, JSON null, a document
\* without date, a document with an empty date
BadMessages ==
    { Message(cables, f, FALSE, NoDate, "A", 0) : f \in {"absent", "garbage", "null", "object"} }
    \cup { Message(cables, "object", TRUE, NoDate, "A", 0) }
\* dated documents: every day and body on one topic, one document on the
\* other topic, one with the unpadded date and one second text of a document
DatedMessages ==
    { Message(cables, "object", TRUE, d, b, 0) : d \in {D27, D28}, b \in Bodies }
    \cup { Message(exchanges, "object", TRUE, D27, "A", 0),
           Message(exchanges, "object", TRUE, DShort, "A", 0),
           Message(cables, "object", TRUE, D27, "A", 1) }
Messages == BadMessages \cup DatedMessages

\* JSON.parse(message.value.toString()): throws on an absent value and on
\* text that is not JSON; otherwise the value, which is null or a document.
\* White space is not part of the parsed value.
JSONparse(m) ==
    IF m.form \in {"absent", "garbage"}
    THEN [threw |-> TRUE, isNull |-> FALSE, hasDate |-> FALSE, date |-> NoDate, body |-> "A"]
    ELSE IF m.form = "null"
    THEN [threw |-> FALSE, isNull |-> TRUE, hasDate |-> FALSE, date |-> NoDate, body |-> "A"]
    ELSE [threw |-> FALSE, isNull |-> FALSE, hasDate |-> m.hasDate, date |-> m.date, body |-> m.body]

\* Doc with the arrival time stamped into the stored document
DocStamped(p) == [hasDate |-> p.hasDate, date |-> p.date, body |-> <<p.body, clock>>]

\* a parsed document as the stores hold it
Doc(p) == [hasDate |-> p.hasDate, date |-> p.date, body |-> p.body]

\* JSON.stringify(value): the canonical text of a document
JSONstringify(v) == [form |-> "object", hasDate |-> v.hasDate, date |-> v.date, body |-> v.body, ws |-> 0]

\* JSON.parse of a stored text (api/exchanges/[date].js line 31)
JSONparseText(s) == [hasDate |-> s.hasDate, date |-> s.date, body |-> s.body]

\* acceptsMessage without the test of messageDate
acceptsMessageAnyDocument(m) ==
    /\ ~JSONparse(m).threw
    /\ ~JSONparse(m).isNull

\* const value = JSON.parse(...); const messageDate = value.date;
\* if (messageDate) { ... }  -- inside try: a throw of JSON.parse, of
\* toString on null or of reading .date of null is caught and the message
\* is skipped; so is a document whose date is missing or empty.
acceptsMessage(m) ==
    LET p == JSONparse(m)
    IN  /\ ~p.threw
        /\ ~p.isNull
        /\ p.hasDate
        /\ p.date # NoDate

\* ---------------------------------------------------------------- store helpers
Slots == {1, 2}
Null == [null |-> TRUE]
EmptyMap == [k \in {} |-> Null]
\* MapSet that keeps the value a key already has
MapSetKeepFirst(map, k, v) ==
    [x \in (DOMAIN map) \cup {k} |-> IF x \in DOMAIN map THEN map[x] ELSE v]

\* Map.prototype.set / Redis SET on a map held as a function
MapSet(map, k, v) == [x \in (DOMAIN map) \cup {k} |-> IF x = k THEN v ELSE map[x]]

\* ---------------------------------------------------------------- in-memory store
\* dataStore.get(`${topic}:${date}`) || null  (a stored document is an
\* object, hence truthy)
getDataForDate(topic, date) ==
    IF keyOf(topic, date) \in DOMAIN dataStore THEN dataStore[keyOf(topic, date)] ELSE Null

\* ascending sort of a finite collection of strings given as the keys they
\* were cut from (two keys may give the same string, which then occurs twice)
RECURSIVE sortedSecondParts(_)
sortedSecondParts(keys) ==
    IF keys = {} THEN <<>>
    ELSE LET k == CHOOSE x \in keys : \A y \in keys : ~StrLess(splitSecond(y), splitSecond(x))
         IN  <<splitSecond(k)>> \o sortedSecondParts(keys \ {k})

\* for (const key of dataStore.keys()) if (key.startsWith(`${topic}:`))
\*     dates.push(key.split(':')[1]);  return dates.sort();
getAvailableDates(topic) ==
    sortedSecondParts({k \in DOMAIN dataStore : startsWith(k, topic \o <<":">>)})

\* ---------------------------------------------------------------- durable store
StringValue(text) == [type |-> "string", text |-> text, members |-> {}]
SetValue(members) == [type |-> "set", text |-> Null, members |-> members]

\* kv.set(key, text): replaces whatever the key held
kvSet(store, key, text) == MapSet(store, key, StringValue(text))
\* kv.sadd(key, member) refuses a key that holds a string (WRONGTYPE)
kvSaddFails(store, key) == key \in DOMAIN store /\ store[key].type # "set"
kvSadd(store, key, member) ==
    MapSet(store, key,
           SetValue((IF key \in DOMAIN store THEN store[key].members ELSE {}) \cup {member}))
\* kv.get(key): the stored value, or null
kvGet(store, key) ==
    IF key \in DOMAIN store /\ store[key].type = "string" THEN store[key].text ELSE Null
\* kv.smembers(key): the members, none for a missing key
kvSmembers(store, key) ==
    IF key \in DOMAIN store /\ store[key].type = "set" THEN store[key].members ELSE {}

RECURSIVE sortedStrings(_)
\* (members || []).sort()
sortedStrings(S) ==
    IF S = {} THEN <<>>
    ELSE LET m == CHOOSE x \in S : \A y \in S : ~StrLess(y, x)
         IN  <<m>> \o sortedStrings(S \ {m})

\* api/exchanges/[date].js after validation: const raw = await kv.get(...);
\* a miss when !raw, else typeof raw === 'string' ? JSON.parse(raw) : raw.
\* The cables endpoint reads `cables:${date}` the same way.
kvReadEntry(store, topic, date) ==
    LET raw == kvGet(store, keyOf(topic, date))
    IN  IF raw = Null THEN Null ELSE JSONparseText(raw)

\* api/dates.js: (await kv.smembers(`${topic}:dates`) || []).sort()
kvAvailableDates(store, topic) == sortedStrings(kvSmembers(store, datesKeyOf(topic)))

\* ---------------------------------------------------------------- cache contents
\* What the read side can tell about the cache: the entry of every key and
\* the date list of every topic.
serverContents ==
    [entries |-> [t \in Topics |-> [d \in Dates |-> getDataForDate(t, d)]],
     dates |-> [t \in Topics |-> getAvailableDates(t)]]
kvContents(store) ==
    [entries |-> [t \in Topics |-> [d \in Dates |-> kvReadEntry(store, t, d)]],
     dates |-> [t \in Topics |-> kvAvailableDates(store, t)]]
Contents == IF deployment = "server" THEN serverContents ELSE kvContents(kv)

\* the stream observation of a consumer that has not been handed a message
InitMessage == Message(cables, "absent", FALSE, NoDate, "A", 0)
NoContents == [entries |-> [t \in Topics |-> [d \in Dates |-> Null]],
               dates |-> [t \in Topics |-> <<>>]]
\* whether the behaviour keeps the stream observation
Observing == lastResult # "unobserved"

ObserveNothing ==
    IF Observing
    THEN /\ msg' = InitMessage
         /\ lastResult' = "none"
         /\ prev' = "other"
         /\ before' = NoContents
    ELSE UNCHANGED streamVars

\* what became of the message handed over last
Settle(result) == lastResult' = IF Observing THEN result ELSE lastResult

\* the stream observation on handing message m to eachMessage; for a
\* dated message, "again" when m is the message that was applied last and
\* "afterSkip" when the message before it was skipped
Observe(m, result) ==
    IF Observing
    THEN /\ msg' = m
         /\ lastResult' = result
         /\ prev' = IF result = "skipped" THEN "other"
                    ELSE IF lastResult = "applied" /\ msg = m THEN "again"
                    ELSE IF lastResult = "skipped" THEN "afterSkip"
                    ELSE "other"
         /\ before' = Contents
    ELSE UNCHANGED streamVars

\* ---------------------------------------------------------------- credentials
CertVars == {"ca", "cert", "key"}
\* what is at the path of a certificate file: nothing, a file that
\* fs.readFileSync cannot read, or a readable file
AllFiles(s) == [v \in CertVars |-> s]
\* the host as far as the certificates go: which of KAFKA_{CA,CERT,KEY}_B64
\* are set (none, two of the three, all) and what is at the three paths
CertEnvs ==
    [b64 : {{}, {"ca", "cert"}, CertVars},
     files : {AllFiles("missing"), AllFiles("ok"),
              [AllFiles("ok") EXCEPT !["cert"] = "missing"],
              [AllFiles("ok") EXCEPT !["key"] = "unreadable"]}]
\* the hosts of the cron function, which reads no file: the files are
\* all there or all missing, and missing where the base64 triple is set
CronCertEnvs ==
    {env \in CertEnvs : /\ env.files \in {AllFiles("missing"), AllFiles("ok")}
                        /\ env.b64 = CertVars => env.files = AllFiles("missing")}

\* the value of process.env.KAFKA_<v>_B64 and the text it encodes
B64Text(v) == [base64 |-> <<"env", v>>]
\* Buffer.from(text, 'base64').toString('utf-8')
fromBase64(text) == text.base64
\* fs.readFileSync(path, 'utf-8') of a readable certificate file
readFileSync(v) == <<"file", v>>

\* loadSSLCerts that takes each value from the environment where it is
\* set and from its file otherwise
loadSSLCertsPerValue(env) ==
    IF env.b64 = CertVars
    THEN [outcome |-> "ok", ssl |-> [v \in CertVars |-> fromBase64(B64Text(v))]]
    ELSE IF \E v \in CertVars : env.files[v] = "missing"
    THEN [outcome |-> "null", ssl |-> Null]
    ELSE IF \E v \in CertVars : env.files[v] # "ok"
    THEN [outcome |-> "throw", ssl |-> Null]
    ELSE [outcome |-> "ok",
          ssl |-> [v \in CertVars |-> IF v \in env.b64 THEN fromBase64(B64Text(v))
                                      ELSE readFileSync(v)]]

\* kafka-consumer.js loadSSLCerts: the base64 triple if all three are set;
\* else null if a file does not exist; else the three files, where
\* readFileSync throws on a file that cannot be read
loadSSLCerts(env) ==
    IF env.b64 = CertVars
    THEN [outcome |-> "ok", ssl |-> [v \in CertVars |-> fromBase64(B64Text(v))]]
    ELSE IF \E v \in CertVars : env.files[v] = "missing"
    THEN [outcome |-> "null", ssl |-> Null]
    ELSE IF \E v \in CertVars : env.files[v] # "ok"
    THEN [outcome |-> "throw", ssl |-> Null]
    ELSE [outcome |-> "ok", ssl |-> [v \in CertVars |-> readFileSync(v)]]

\* cron loadSSLCerts: the base64 triple, or throws
cronLoadSSLCerts(env) ==
    IF env.b64 = CertVars
    THEN [outcome |-> "ok", ssl |-> [v \in CertVars |-> fromBase64(B64Text(v))]]
    ELSE [outcome |-> "throw", ssl |-> Null]

\* ---------------------------------------------------------------- long-running consumer
\* (process.env.KAFKA_TOPICS || 'cables,exchanges').split(','): the default
\* list, and a list configured with one more topic
TopicList == <<cables, exchanges>>
prices == <<"p", "r", "i", "c", "e", "s">>
ConfiguredTopicLists == {TopicList, TopicList \o <<prices>>}
\* the messages of the subscribed topics
Delivered ==
    { m \in Messages \cup {Message(prices, "object", TRUE, D27, "A", 0)} :
        \E n \in 1..Len(host.topics) : host.topics[n] = m.topic }

At(a) == [at |-> a, i |-> 0]

\* the process of server.js before start() is called: start is the position
\* of start(), exit the exit code once the process has ended, ssl the
\* bundle handed to new Kafka, rejected the broker call that rejected,
\* signals the signals received, awaiting the signal handlers waiting for
\* stopConsumer(), disconnected whether a disconnect() has resolved
InitProc ==
    [start |-> "startConsumer", exit |-> "none", ssl |-> Null, rejected |-> "none",
     signals |-> 0, awaiting |-> 0, disconnectCalls |-> 0, disconnected |-> FALSE]

\* the long-running process has not ended
Alive == deployment = "server" /\ proc.exit = "none"

\* start() is between the return of startConsumer() and app.listen: it
\* resumes as a microtask, ahead of any signal or message
Resuming == proc.start = "startConsumer" /\ startPc.at \in {"running", "returned"}

\* startConsumer() up to the first await; a throw of loadSSLCerts() is not
\* caught and rejects start()
StartConsumer ==
    /\ Alive
    /\ startPc = At("start")
    /\ LET r == loadSSLCerts(host)
       IN  IF r.outcome = "null"
           THEN /\ consumerStatus' = "error: missing SSL certs"
                /\ startPc' = At("returned")
                /\ UNCHANGED <<kafkaConsumer, proc>>
           ELSE IF r.outcome = "throw"
           THEN /\ startPc' = At("threw")
                /\ proc' = [proc EXCEPT !.start = "rejected"]
                /\ UNCHANGED <<kafkaConsumer, consumerStatus>>
           ELSE /\ kafkaConsumer' = TRUE
                /\ proc' = [proc EXCEPT !.ssl = r.ssl]
                /\ startPc' = At("connect")
                /\ UNCHANGED consumerStatus
    /\ UNCHANGED <<table, deployment, host, broker, clock, dataStore, lastMessageAt, cronSecret, live>>
    /\ UNCHANGED <<cronVars, streamVars>>

\* await kafkaConsumer.connect() resolves
ConnectOk ==
    /\ Alive
    /\ startPc = At("connect")
    /\ consumerStatus' = "connected"
    /\ startPc' = [at |-> "subscribe", i |-> 1]
    /\ UNCHANGED <<table, deployment, host, proc, broker, clock, dataStore, lastMessageAt, kafkaConsumer,
                   cronSecret, live>>
    /\ UNCHANGED <<cronVars, streamVars>>

\* await kafkaConsumer.subscribe(...) resolves for topic number startPc.i
SubscribeOk ==
    /\ Alive
    /\ startPc.at = "subscribe"
    /\ startPc' = IF startPc.i < Len(host.topics)
                  THEN [at |-> "subscribe", i |-> startPc.i + 1]
                  ELSE At("run")
    /\ UNCHANGED <<table, deployment, host, proc, broker, clock, dataStore, consumerStatus, lastMessageAt,
                   kafkaConsumer, cronSecret, live>>
    /\ UNCHANGED <<cronVars, streamVars>>

\* await kafkaConsumer.run(...) resolves: the consumer is fetching and
\* startConsumer() returns
RunOk ==
    /\ Alive
    /\ startPc = At("run")
    /\ startPc' = At("running")
    /\ UNCHANGED <<table, deployment, host, proc, broker, clock, dataStore, consumerStatus, lastMessageAt,
                   kafkaConsumer, cronSecret, live>>
    /\ UNCHANGED <<cronVars, streamVars>>

\* StartFails that lets the rejection out of startConsumer()
StartFailsRethrows ==
    /\ Alive
    /\ startPc.at \in {"connect", "subscribe", "run"}
    /\ consumerStatus' = "error: " \o startPc.at
    /\ startPc' = At("threw")
    /\ proc' = [proc EXCEPT !.rejected = startPc.at, !.start = "rejected"]
    /\ UNCHANGED <<table, deployment, host, broker, clock, dataStore, lastMessageAt, kafkaConsumer,
                   cronSecret, live>>
    /\ UNCHANGED <<cronVars, streamVars>>

\* connect, subscribe or run rejects: catch (err) sets the status to
\* `error: ${err.message}` and startConsumer() returns
StartFails ==
    /\ Alive
    /\ startPc.at \in {"connect", "subscribe", "run"}
    /\ consumerStatus' = "error: " \o startPc.at
    /\ startPc' = At("returned")
    /\ proc' = [proc EXCEPT !.rejected = startPc.at]
    /\ UNCHANGED <<table, deployment, host, broker, clock, dataStore, lastMessageAt, kafkaConsumer,
                   cronSecret, live>>
    /\ UNCHANGED <<cronVars, streamVars>>

\* start() after await startConsumer(): app.listen(PORT, ...) binds
Listen ==
    /\ Alive
    /\ Resuming
    /\ host.portOk
    /\ proc' = [proc EXCEPT !.start = "listening"]
    /\ UNCHANGED <<table, deployment, host, broker, clock, cronSecret, live>>
    /\ UNCHANGED <<serverVars, cronVars, streamVars>>

\* app.listen(PORT, ...) throws (a port out of range): start() rejects
ListenThrows ==
    /\ Alive
    /\ Resuming
    /\ ~host.portOk
    /\ proc' = [proc EXCEPT !.start = "rejected"]
    /\ UNCHANGED <<table, deployment, host, broker, clock, cronSecret, live>>
    /\ UNCHANGED <<serverVars, cronVars, streamVars>>

\* start().catch((err) => { ...; process.exit(1) })
StartCatch ==
    /\ Alive
    /\ proc.start = "rejected"
    /\ proc' = [proc EXCEPT !.exit = "1"]
    /\ UNCHANGED <<table, deployment, host, broker, clock, cronSecret, live>>
    /\ UNCHANGED <<serverVars, cronVars, streamVars>>

\* process.on('SIGINT' / 'SIGTERM') up to the await inside stopConsumer():
\* with a consumer, kafkaConsumer.disconnect() is called; without one
\* stopConsumer() returns and process.exit(0) follows
Signal ==
    /\ Alive
    /\ startPc # At("start")
    /\ ~Resuming
    /\ proc.start # "rejected"
    /\ proc.signals < MaxSignals
    /\ proc' = IF kafkaConsumer
               THEN [proc EXCEPT !.signals = @ + 1, !.awaiting = @ + 1,
                                 !.disconnectCalls = @ + 1]
               ELSE [proc EXCEPT !.signals = @ + 1, !.exit = "0"]
    /\ UNCHANGED <<table, deployment, host, broker, clock, cronSecret, live>>
    /\ UNCHANGED <<serverVars, cronVars, streamVars>>

\* await kafkaConsumer.disconnect() of stopConsumer() resolves:
\* consumerStatus = 'disconnected', stopConsumer() returns and the signal
\* handler calls process.exit(0)
StopConsumerResolves ==
    /\ Alive
    /\ proc.awaiting > 0
    /\ consumerStatus' = "disconnected"
    /\ proc' = [proc EXCEPT !.awaiting = @ - 1, !.disconnected = TRUE, !.exit = "0"]
    /\ UNCHANGED <<table, deployment, host, broker, clock, dataStore, lastMessageAt, kafkaConsumer,
                   startPc, cronSecret, live>>
    /\ UNCHANGED <<cronVars, streamVars>>

\* await kafkaConsumer.disconnect() of stopConsumer() rejects: the signal
\* handler's promise rejects with nothing to catch it, which ends the
\* process (exit code 1) or only warns, depending on the Node.js version
StopConsumerRejects ==
    /\ Alive
    /\ proc.awaiting > 0
    /\ \E e \in {"none", "unhandled"} :
        proc' = [proc EXCEPT !.awaiting = @ - 1, !.exit = e]
    /\ UNCHANGED <<table, deployment, host, broker, clock, cronSecret, live>>
    /\ UNCHANGED <<serverVars, cronVars, streamVars>>

\* eachMessage of the long-running consumer, for a message it stores
serverStores(m) ==
    /\ dataStore' = MapSet(dataStore, keyOf(m.topic, JSONparse(m).date), Doc(JSONparse(m)))
    /\ lastMessageAt' = clock + 1
    /\ clock' = clock + 1

\* eachMessage({topic, message}) of kafka-consumer.js: no await inside
ServerMessage ==
    /\ Alive
    /\ startPc = At("running")
    /\ proc.start = "listening"
    /\ \E m \in Delivered :
        IF acceptsMessage(m)
        THEN /\ clock < MaxClock
             /\ serverStores(m)
             /\ Observe(m, "applied")
        ELSE /\ Observe(m, "skipped")
             /\ UNCHANGED <<dataStore, lastMessageAt, clock>>
    /\ UNCHANGED <<table, deployment, host, proc, broker, consumerStatus, kafkaConsumer, startPc, cronSecret, live>>
    /\ UNCHANGED cronVars

\* ---------------------------------------------------------------- cron function
\* req.headers.authorization of an invocation
NoHeader == [present |-> FALSE, value |-> ""]
Headers == {NoHeader} \cup
           { [present |-> TRUE, value |-> v] :
               v \in {"Bearer s3cr3t", "Bearer wrong", "Bearer undefined"} }

\* `Bearer ${process.env.CRON_SECRET}`
expectedAuthorization(secret) ==
    "Bearer " \o (IF secret.set THEN secret.value ELSE "undefined")

\* authorizationDiffers that only asks for some authorization header
authorizationDiffersWhenMissing(h, secret) == ~h.present

\* req.headers.authorization !== `Bearer ${process.env.CRON_SECRET}`
authorizationDiffers(h, secret) ==
    ~(h.present /\ h.value = expectedAuthorization(secret))

NoResponse == [status |-> 0, messagesProcessed |-> 0, error |-> "none"]
NoCur == [topic |-> cables, doc |-> Null]
NoCalls == [connect |-> 0, subscribe |-> 0, run |-> 0, disconnect |-> 0]
\* the locals of one invocation before handler() runs
IdleJob ==
    [pc |-> "idle", authorization |-> NoHeader, consumer |-> FALSE, sub |-> 0,
     messageCount |-> 0, offset |-> 0, running |-> FALSE, runner |-> "off", cur |-> NoCur,
     err |-> "none", response |-> NoResponse, calls |-> NoCalls, syncWrites |-> 0]

\* catchBlock that responds without disconnecting
catchBlockNoDisconnect(j, e) ==
    [j EXCEPT !.err = e, !.pc = "done", !.running = FALSE,
              !.response = [status |-> 500, messagesProcessed |-> 0, error |-> e]]

\* catch (err) { if (consumer) { try { await consumer.disconnect() } catch (_) {} }
\*               return res.status(500).json({ error: err.message }) }
\* up to its first await, for the job record j
catchBlock(j, e) ==
    IF j.consumer
    THEN [j EXCEPT !.err = e, !.pc = "catch", !.running = FALSE,
                   !.calls.disconnect = @ + 1]
    ELSE [j EXCEPT !.err = e, !.pc = "done",
                   !.response = [status |-> 500, messagesProcessed |-> 0, error |-> e]]

\* what the topics deliver to the cron function's consumer: any message at
\* any time (free), or the messages of a fixed log, which every run reads
\* from its start (subscribe with fromBeginning: true).  applied records
\* that one run has applied the whole log, replay that the current run
\* started after that, atStart the entries the reads returned when it started.
FreeBroker ==
    [free |-> TRUE, log |-> <<>>, applied |-> FALSE, replay |-> FALSE,
     atStart |-> NoContents.entries]

\* the broker record when an invocation starts
brokerAtInvoke ==
    IF broker.free THEN broker
    ELSE [broker EXCEPT !.replay = broker.applied, !.atStart = kvContents(kv).entries]

\* the messages the broker can hand to the consumer of invocation i next
Deliverable(i) ==
    IF broker.free THEN Delivered
    ELSE IF job[i].offset < Len(broker.log) THEN {broker.log[job[i].offset + 1]}
    ELSE {}

\* handler(req, res) up to its first await: the authorization check,
\* loadSSLCerts(), new Kafka, kafka.consumer and the call of connect().
\* The stream observation starts afresh with the invocation's consumer.
Invoke(i) ==
    /\ deployment = "vercel"
    /\ job[i].pc \in {"idle", "done"}
    /\ job[i].runner \in {"off", "idle"}
    /\ runs < MaxRuns
    /\ runs' = runs + 1
    /\ \E h \in Headers :
        LET fresh == [IdleJob EXCEPT !.authorization = h]
        IN  IF authorizationDiffers(h, cronSecret)
            THEN job' = [job EXCEPT ![i] =
                            [fresh EXCEPT !.pc = "done",
                                          !.response = [status |-> 401, messagesProcessed |-> 0,
                                                        error |-> "Unauthorized"]]]
            ELSE job' = [job EXCEPT ![i] =
                            IF cronLoadSSLCerts(host).outcome = "throw"
                            THEN catchBlock(fresh, "certs")
                            ELSE [fresh EXCEPT !.consumer = TRUE, !.pc = "connect",
                                               !.calls.connect = 1]]
    /\ broker' = brokerAtInvoke
    /\ ObserveNothing
    /\ UNCHANGED <<table, deployment, host, proc, clock, kv, cronSecret, live>>
    /\ UNCHANGED serverVars

\* await consumer.connect() resolves; the first subscribe is called
CronConnectOk(i) ==
    /\ job[i].pc = "connect"
    /\ job' = [job EXCEPT ![i].pc = "subscribe", ![i].sub = 1, ![i].calls.subscribe = 1]
    /\ UNCHANGED <<table, deployment, host, proc, broker, clock, kv, cronSecret, live, runs>>
    /\ UNCHANGED <<serverVars, streamVars>>

\* CronConnectFail with one more connect attempt before giving up
CronConnectFailRetries(i) ==
    /\ job[i].pc = "connect"
    /\ job' = [job EXCEPT ![i] =
            IF job[i].calls.connect < 2
            THEN [@ EXCEPT !.calls.connect = @ + 1]
            ELSE catchBlock(job[i], "connect")]
    /\ UNCHANGED <<table, deployment, host, proc, broker, clock, kv, cronSecret, live, runs>>
    /\ UNCHANGED <<serverVars, streamVars>>

\* await consumer.connect() rejects
CronConnectFail(i) ==
    /\ job[i].pc = "connect"
    /\ job' = [job EXCEPT ![i] = catchBlock(job[i], "connect")]
    /\ UNCHANGED <<table, deployment, host, proc, broker, clock, kv, cronSecret, live, runs>>
    /\ UNCHANGED <<serverVars, streamVars>>

\* await consumer.subscribe(...) resolves; after the last topic
\* Promise.race([consumer.run({eachMessage}), timer]) starts
CronSubscribeOk(i) ==
    /\ job[i].pc = "subscribe"
    /\ job' = [job EXCEPT ![i] =
            IF job[i].sub < Len(host.topics)
            THEN [@ EXCEPT !.sub = @ + 1, !.calls.subscribe = @ + 1]
            ELSE [@ EXCEPT !.pc = "race", !.running = TRUE, !.runner = "idle",
                           !.calls.run = 1]]
    /\ UNCHANGED <<table, deployment, host, proc, broker, clock, kv, cronSecret, live, runs>>
    /\ UNCHANGED <<serverVars, streamVars>>

\* await consumer.subscribe(...) rejects
CronSubscribeFail(i) ==
    /\ job[i].pc = "subscribe"
    /\ job' = [job EXCEPT ![i] = catchBlock(job[i], "subscribe")]
    /\ UNCHANGED <<table, deployment, host, proc, broker, clock, kv, cronSecret, live, runs>>
    /\ UNCHANGED <<serverVars, streamVars>>

\* the job record after the race has settled without a rejection:
\* kv.set('lastSyncAt', ...) is called
afterRace(j) == [j EXCEPT !.pc = "setSync"]

\* TimerFires of a race that has no timer
TimerNeverFires(i) ==
    /\ FALSE
    /\ UNCHANGED vars

\* setTimeout(resolve, 25000) fires while the race is pending
TimerFires(i) ==
    /\ job[i].pc = "race"
    /\ job' = [job EXCEPT ![i] = afterRace(job[i])]
    /\ UNCHANGED <<table, deployment, host, proc, broker, clock, kv, cronSecret, live, runs>>
    /\ UNCHANGED <<serverVars, streamVars>>

\* the promise of consumer.run() resolves while the race is pending
RunResolves(i) ==
    /\ job[i].pc = "race"
    /\ job' = [job EXCEPT ![i] = afterRace(job[i])]
    /\ UNCHANGED <<table, deployment, host, proc, broker, clock, kv, cronSecret, live, runs>>
    /\ UNCHANGED <<serverVars, streamVars>>

\* the promise of consumer.run() rejects while the race is pending
RunRejects(i) ==
    /\ job[i].pc = "race"
    /\ job' = [job EXCEPT ![i] = catchBlock(job[i], "run")]
    /\ UNCHANGED <<table, deployment, host, proc, broker, clock, kv, cronSecret, live, runs>>
    /\ UNCHANGED <<serverVars, streamVars>>

\* await kv.set('lastSyncAt', new Date().toISOString()) resolves;
\* consumer.disconnect() is called
SetSyncOk(i) ==
    /\ job[i].pc = "setSync"
    /\ kv' = kvSet(kv, lastSyncAtKey, clock)
    /\ job' = [job EXCEPT ![i].pc = "disconnect", ![i].syncWrites = @ + 1,
                          ![i].running = FALSE, ![i].calls.disconnect = @ + 1]
    /\ UNCHANGED <<table, deployment, host, proc, broker, clock, cronSecret, live, runs>>
    /\ UNCHANGED <<serverVars, streamVars>>

\* await kv.set('lastSyncAt', ...) rejects
SetSyncFail(i) ==
    /\ job[i].pc = "setSync"
    /\ job' = [job EXCEPT ![i] = catchBlock(job[i], "lastSyncAt")]
    /\ UNCHANGED <<table, deployment, host, proc, broker, clock, kv, cronSecret, live, runs>>
    /\ UNCHANGED <<serverVars, streamVars>>

\* res.status(200).json({success: true, messagesProcessed: messageCount, ...})
successResponse(j) ==
    [status |-> 200, messagesProcessed |-> j.messageCount, error |-> "none"]

\* await consumer.disconnect() (line 99) resolves, which it does once the
\* runner has finished the message it is processing
DisconnectOk(i) ==
    /\ job[i].pc = "disconnect"
    /\ job[i].runner \in {"off", "idle"}
    /\ job' = [job EXCEPT ![i].pc = "done", ![i].response = successResponse(job[i])]
    /\ UNCHANGED <<table, deployment, host, proc, broker, clock, kv, cronSecret, live, runs>>
    /\ UNCHANGED <<serverVars, streamVars>>

\* await consumer.disconnect() (line 99) rejects
DisconnectFail(i) ==
    /\ job[i].pc = "disconnect"
    /\ job' = [job EXCEPT ![i] = catchBlock(job[i], "disconnect")]
    /\ UNCHANGED <<table, deployment, host, proc, broker, clock, kv, cronSecret, live, runs>>
    /\ UNCHANGED <<serverVars, streamVars>>

\* the disconnect of the catch block resolves or rejects (ignored), then
\* res.status(500).json({ error: err.message })
CatchDisconnectDone(i) ==
    /\ job[i].pc = "catch"
    /\ job' = [job EXCEPT ![i].pc = "done",
                          ![i].response = [status |-> 500, messagesProcessed |-> 0,
                                           error |-> job[i].err]]
    /\ UNCHANGED <<table, deployment, host, proc, broker, clock, kv, cronSecret, live, runs>>
    /\ UNCHANGED <<serverVars, streamVars>>

\* ---------------------------------------------------------------- cron eachMessage
\* eachMessage({topic, message}) of the cron function up to its first
\* await: a skipped message returns at once, a dated one calls
\* kv.set(`${topic}:${messageDate}`, JSON.stringify(value))
CronMessage(i) ==
    /\ job[i].running
    /\ job[i].runner = "idle"
    /\ \E m \in Deliverable(i) :
        IF acceptsMessage(m)
        THEN /\ broker.free => clock < MaxClock
             /\ clock' = clock + 1
             /\ job' = [job EXCEPT ![i].runner = "set",
                                   ![i].offset = IF broker.free THEN 0 ELSE @ + 1,
                                   ![i].cur = [topic |-> m.topic, doc |-> Doc(JSONparse(m))]]
             /\ Observe(m, "pending")
        ELSE /\ Observe(m, "skipped")
             /\ job' = [job EXCEPT ![i].offset = IF broker.free THEN 0 ELSE @ + 1]
             /\ UNCHANGED clock
    /\ UNCHANGED <<table, deployment, host, proc, broker, kv, cronSecret, live, runs>>
    /\ UNCHANGED serverVars

\* await kv.set(kvKey, JSON.stringify(value)) resolves; kv.sadd is called
KvSetOk(i) ==
    /\ job[i].runner = "set"
    /\ kv' = kvSet(kv, keyOf(job[i].cur.topic, job[i].cur.doc.date), JSONstringify(job[i].cur.doc))
    /\ job' = [job EXCEPT ![i].runner = "sadd"]
    /\ UNCHANGED <<table, deployment, host, proc, broker, clock, cronSecret, live, runs>>
    /\ UNCHANGED <<serverVars, streamVars>>

\* await kv.sadd(`${topic}:dates`, messageDate) resolves; messageCount++
SaddOk(i) ==
    /\ job[i].runner = "sadd"
    /\ ~kvSaddFails(kv, datesKeyOf(job[i].cur.topic))
    /\ kv' = kvSadd(kv, datesKeyOf(job[i].cur.topic), job[i].cur.doc.date)
    /\ job' = [job EXCEPT ![i].runner = "idle", ![i].cur = NoCur, ![i].messageCount = @ + 1]
    /\ Settle("applied")
    /\ broker' = IF ~broker.free /\ job[i].messageCount + 1 = Len(broker.log)
                 THEN [broker EXCEPT !.applied = TRUE]
                 ELSE broker
    /\ UNCHANGED <<table, deployment, host, proc, clock, cronSecret, live, runs, msg, prev, before>>
    /\ UNCHANGED serverVars

\* KvWriteFails that counts the message all the same
KvWriteFailsCounted(i) ==
    /\ job[i].runner \in {"set", "sadd"}
    /\ job' = [job EXCEPT ![i].runner = "idle", ![i].cur = NoCur, ![i].messageCount = @ + 1]
    /\ Settle("failed")
    /\ UNCHANGED <<table, deployment, host, proc, broker, clock, kv, cronSecret, live, runs, msg, prev, before>>
    /\ UNCHANGED serverVars

\* kv.set or kv.sadd rejects: catch (err) inside eachMessage logs it
KvWriteFails(i) ==
    /\ job[i].runner \in {"set", "sadd"}
    /\ job' = [job EXCEPT ![i].runner = "idle", ![i].cur = NoCur]
    /\ Settle("failed")
    /\ UNCHANGED <<table, deployment, host, proc, broker, clock, kv, cronSecret, live, runs, msg, prev, before>>
    /\ UNCHANGED serverVars

\* ---------------------------------------------------------------- read API
\* res.json({date, source, data: [], available_dates})
missShape(date, topic, dates) ==
    [date |-> date, source |-> topic, data |-> <<>>, available_dates |-> dates]
invalidDate == [error |-> "Invalid date format. Use YYYY-MM-DD"]

\* server.js GET /api/<topic>/:date; reads counts the calls of
\* getDataForDate and getAvailableDates the request made
serverGetDate(topic, date) ==
    IF ~isDateFormat(date)
    THEN [status |-> 400, body |-> invalidDate, reads |-> 0]
    ELSE IF getDataForDate(topic, date) = Null
    THEN [status |-> 200, body |-> missShape(date, topic, getAvailableDates(topic)), reads |-> 2]
    ELSE [status |-> 200, body |-> getDataForDate(topic, date), reads |-> 1]

\* api/<topic>/[date].js with both store reads answered; reads counts the
\* calls of kv.get and kv.smembers the request made
kvGetDate(store, topic, date) ==
    IF ~isDateFormat(date)
    THEN [status |-> 400, body |-> invalidDate, reads |-> 0]
    ELSE IF kvGet(store, keyOf(topic, date)) = Null
    THEN [status |-> 200, body |-> missShape(date, topic, kvAvailableDates(store, topic)),
          reads |-> 2]
    ELSE [status |-> 200, body |-> kvReadEntry(store, topic, date), reads |-> 1]

\* kafka-consumer.js getStatus(), served by GET /api/status
getStatus ==
    [status |-> consumerStatus, lastMessageAt |-> lastMessageAt,
     cachedEntries |-> Cardinality(DOMAIN dataStore),
     availableDates |-> [cables |-> getAvailableDates(cables),
                         exchanges |-> getAvailableDates(exchanges)]]

\* a request to the durable read API during which the at-th store read
\* rejects with an error carrying message (at = 0: every read is answered)
ErrorMessages == {"ECONNRESET", "WRONGTYPE"}
NoFailure == [at |-> 0, message |-> "none"]
Failures == {[at |-> n, message |-> m] : n \in 1..3, m \in ErrorMessages}

\* catch (err) of the status handler: res.status(500).json({...})
statusFallback(err) ==
    [status |-> 500,
     body |-> [status |-> "error", error |-> err, lastMessageAt |-> Null, cachedEntries |-> 0,
               availableDates |-> [cables |-> <<>>, exchanges |-> <<>>]]]

\* the status handler answering with what it had read before the failure
kvStatusPartial(store, f) ==
    IF f.at \in 1..3
    THEN [statusFallback(f.message)
              EXCEPT !.body.cachedEntries =
                         IF f.at = 3 THEN Cardinality(kvSmembers(store, datesKeyOf(cables)))
                         ELSE 0]
    ELSE [status |-> 200,
          body |-> [status |-> "ok", lastMessageAt |-> kvGet(store, lastSyncAtKey),
                    cachedEntries |-> Cardinality(kvSmembers(store, datesKeyOf(cables)))
                                      + Cardinality(kvSmembers(store, datesKeyOf(exchanges))),
                    availableDates |-> [cables |-> kvAvailableDates(store, cables),
                                        exchanges |-> kvAvailableDates(store, exchanges)]]]

\* GET /api/status of the durable topology: kv.get('lastSyncAt'),
\* kv.smembers('cables:dates'), kv.smembers('exchanges:dates'), then
\* res.json({status: 'ok', ...}); a rejected read goes to catch (err)
kvStatus(store, f) ==
    IF f.at \in 1..3
    THEN statusFallback(f.message)
    ELSE [status |-> 200,
          body |-> [status |-> "ok", lastMessageAt |-> kvGet(store, lastSyncAtKey),
                    cachedEntries |-> Cardinality(kvSmembers(store, datesKeyOf(cables)))
                                      + Cardinality(kvSmembers(store, datesKeyOf(exchanges))),
                    availableDates |-> [cables |-> kvAvailableDates(store, cables),
                                        exchanges |-> kvAvailableDates(store, exchanges)]]]

\* GET /api/dates of the durable topology: two kv.smembers, then the sorted
\* lists; a rejected read is answered 500 with empty lists
kvDates(store, f) ==
    IF f.at \in 1..2
    THEN [status |-> 500, body |-> [cables |-> <<>>, exchanges |-> <<>>]]
    ELSE [status |-> 200, body |-> [cables |-> kvAvailableDates(store, cables),
                                    exchanges |-> kvAvailableDates(store, exchanges)]]

\* api/<topic>/[date].js when the at-th store read of the request rejects:
\* catch (err) { res.status(500).json({ error: 'Internal server error' }) }
kvGetDateFailing(store, topic, date, f) ==
    IF f.at \in 1..kvGetDate(store, topic, date).reads
    THEN [status |-> 500, body |-> [error |-> "Internal server error"], reads |-> f.at]
    ELSE kvGetDate(store, topic, date)

\* ---------------------------------------------------------------- server.js routing
\* a request path as its segments: /api/cables/2026-02-27 is
\* <<api, cables, D27>>, / is <<>>
api == <<"a", "p", "i">>
statusSegment == <<"s", "t", "a", "t", "u", "s">>
datesSegment == <<"d", "a", "t", "e", "s">>
indexHtml == <<"i", "n", "d", "e", "x", ".", "h", "t", "m", "l">>
\* the files of dist/ after a build, and without one
DistContents == {{<<indexHtml>>}, {}}

\* req.path.startsWith('/api')
pathStartsWithApi(path) == Len(path) >= 1 /\ startsWith(path[1], api)

\* app.get('*', (req, res) => { if (!req.path.startsWith('/api'))
\*     res.sendFile(path.join(distPath, 'index.html')) }): one response
\* (the file, or the error handler's answer when the file is missing) or,
\* for a path that starts with /api, none and no call of next()
spaFallback(path) ==
    [route |-> "fallback", responses |-> IF pathStartsWithApi(path) THEN 0 ELSE 1]

\* a GET request through the routes of server.js in their order: the
\* route that handles it and the number of responses it sends
serverRoute(path, dist) ==
    IF path = <<api, statusSegment>> THEN [route |-> "status", responses |-> 1]
    ELSE IF Len(path) = 3 /\ path[1] = api /\ path[2] \in Topics /\ path[3] # <<>>
    THEN [route |-> path[2], responses |-> 1]
    ELSE IF path = <<api, datesSegment>> THEN [route |-> "dates", responses |-> 1]
    ELSE IF path \in dist THEN [route |-> "static", responses |-> 1]
    ELSE spaFallback(path)

\* ---------------------------------------------------------------- table components
\* String(i) of a small non-negative integer: its decimal digits
String(i) ==
    LET digit(n) == <<"0", "1", "2", "3", "4", "5", "6", "7", "8", "9">>[n + 1]
    IN  IF i < 10 THEN <<digit(i)>> ELSE <<digit(i \div 10), digit(i % 10)>>

\* get24HourPrices(record): for i = 0..23 (column i + 1)
\*   record.times[String(i + 1)] ?? record.times[String(i)] ?? 0,
\* a number then rounded by Number(val.toFixed(2)). Numbers are in
\* thousandths.
get24HourPrices(record) ==
    LET lookup(i) ==
            IF String(i + 1) \in DOMAIN record.times THEN record.times[String(i + 1)]
            ELSE IF String(i) \in DOMAIN record.times THEN record.times[String(i)]
            ELSE 0
        toFixed2(v) == ((v + 5) \div 10) * 10
    IN  [h \in 1..24 |-> toFixed2(lookup(h - 1))]

\* The effect of CablePricesTable (DayAheadMarketTable has the same effect,
\* line for line, over marketPrices) runs for the date prop d:
\* on mount for the initial date, later when App passes another date. The
\* cleanup of the effect before it sets its `mounted` to false; then
\* loadData() runs up to its await: setLoading(true), setError(null),
\* formatDateForApi(date) and the fetch.
loadData(d) ==
    LET formatDateForApi(date) ==
            LET padStart2(n) == IF n < 10 THEN <<"0">> \o String(n) ELSE String(n)
            IN  <<"2", "0", "2", "6">> \o <<"-">> \o padStart2(date.month)
                \o <<"-">> \o padStart2(date.day)
        cleanedUp == [n \in 1..Len(table.requests) |->
                         [table.requests[n] EXCEPT !.mounted = FALSE]]
    IN  /\ deployment = "browser"
        /\ Len(table.requests) < MaxFetches
        /\ IF table.requests = <<>> THEN d = table.date ELSE d # table.date
        /\ table' = [table EXCEPT
                        !.date = d, !.loading = TRUE, !.error = <<"null">>,
                        !.requests = Append(cleanedUp,
                                            [dateStr |-> formatDateForApi(d), mounted |-> TRUE,
                                             pending |-> TRUE, ok |-> FALSE, data |-> <<>>,
                                             error |-> <<"null">>, order |-> 0])]
        /\ UNCHANGED <<deployment, host, proc, broker, clock, cronSecret, live>>
        /\ UNCHANGED <<serverVars, cronVars, streamVars>>

\* loadData() that writes its result whether or not the effect was cleaned up
loadDataResumesUnguarded(n) ==
    /\ n \in 1..Len(table.requests)
    /\ table.requests[n].pending
    /\ \E ok \in BOOLEAN :
       \E times \in {[k \in {String(i) : i \in 1..24} |-> 1000], [k \in {} |-> 0]} :
       \E hasData \in BOOLEAN :
        LET r == table.requests[n]
            data == IF hasData THEN <<[id |-> r.dateStr, times |-> times]>> ELSE <<>>
            message == <<"Failed to fetch">> \o r.dateStr
            settled == [r EXCEPT !.pending = FALSE, !.ok = ok,
                                 !.data = IF ok THEN data ELSE <<>>,
                                 !.error = IF ok THEN <<"null">> ELSE message,
                                 !.order = 1 + Cardinality({m \in 1..Len(table.requests) :
                                                              ~table.requests[m].pending})]
        IN  table' = [table EXCEPT !.requests[n] = settled,
                                   !.data = IF ok THEN data ELSE <<>>,
                                   !.error = IF ok THEN @ ELSE message,
                                   !.loading = FALSE]
    /\ UNCHANGED <<deployment, host, proc, broker, clock, cronSecret, live>>
    /\ UNCHANGED <<serverVars, cronVars, streamVars>>

\* loadData() of request n after its await: the fetch resolved with a
\* response whose data is a list of records or is missing (res.data || []),
\* or it rejected (also for a response that is not ok); then
\*   if (mounted) setCablePrices(...)            in try,
\*   if (mounted) { setError(...); setCablePrices([]) }   in catch,
\*   if (mounted) setLoading(false)              in finally.
\* The records of a response carry the date asked for; their times are
\* keyed "1".."24", "0".."23", "1".."24" without "5", or not at all.
loadDataResumes(n) ==
    /\ n \in 1..Len(table.requests)
    /\ table.requests[n].pending
    /\ \E ok \in BOOLEAN :
       \E times \in {[k \in {String(i) : i \in 1..24} |->
                         1000 * (CHOOSE i \in 1..24 : String(i) = k) + 500],
                     [k \in {String(i) : i \in 0..23} |->
                         1000 * (CHOOSE i \in 0..23 : String(i) = k) + 500],
                     [k \in {String(i) : i \in (1..24) \ {5}} |->
                         1000 * (CHOOSE i \in 1..24 : String(i) = k) + 500],
                     [k \in {} |-> 0]} :
       \E hasData \in BOOLEAN :
        LET r == table.requests[n]
            data == IF hasData THEN <<[id |-> r.dateStr, times |-> times]>> ELSE <<>>
            message == <<"Failed to fetch">> \o r.dateStr
            settled == [r EXCEPT !.pending = FALSE, !.ok = ok,
                                 !.data = IF ok THEN data ELSE <<>>,
                                 !.error = IF ok THEN <<"null">> ELSE message,
                                 !.order = 1 + Cardinality({m \in 1..Len(table.requests) :
                                                              ~table.requests[m].pending})]
        IN  table' = IF r.mounted
                     THEN [table EXCEPT !.requests[n] = settled,
                                        !.data = IF ok THEN data ELSE <<>>,
                                        !.error = IF ok THEN @ ELSE message,
                                        !.loading = FALSE]
                     ELSE [table EXCEPT !.requests[n] = settled]
    /\ UNCHANGED <<deployment, host, proc, broker, clock, cronSecret, live>>
    /\ UNCHANGED <<serverVars, cronVars, streamVars>>

\* ---------------------------------------------------------------- both stores side by side
\* dated messages fed to both consumers: those above, and two whose date
\* carries a time of day
ReplicaMessages ==
    DatedMessages \cup { Message(t, "object", TRUE, DStamp, "A", 0) : t \in Topics }

\* one message handled by both eachMessage handlers, each to its end
\* with every store write succeeding
ApplyBoth ==
    /\ deployment = "both"
    /\ clock < MaxApplied
    /\ \E m \in ReplicaMessages :
        /\ acceptsMessage(m)
        /\ serverStores(m)
        /\ kv' = kvSadd(kvSet(kv, keyOf(m.topic, JSONparse(m).date),
                              JSONstringify(Doc(JSONparse(m)))),
                        datesKeyOf(m.topic), JSONparse(m).date)
        /\ msg' = m
        /\ lastResult' = "applied"
    /\ UNCHANGED <<table, deployment, host, proc, broker, consumerStatus, kafkaConsumer, startPc,
                   cronSecret, live, job, runs, prev, before>>

\* ---------------------------------------------------------------- specification
ServerHosts ==
    {[b64 |-> e.b64, files |-> e.files, portOk |-> p, topics |-> TopicList] :
        e \in CertEnvs, p \in BOOLEAN}
CronHosts ==
    {[b64 |-> e.b64, files |-> e.files, portOk |-> TRUE, topics |-> TopicList] :
        e \in CronCertEnvs}
\* a host with the base64 triple set and nothing else
PlainHost ==
    [b64 |-> CertVars, files |-> AllFiles("missing"), portOk |-> TRUE, topics |-> TopicList]

\* the stores, the long-running process and the stream before anything ran
InitStores ==
    /\ clock = 0
    /\ dataStore = EmptyMap
    /\ consumerStatus = "disconnected"
    /\ lastMessageAt = 0
    /\ kafkaConsumer = FALSE
    /\ startPc = At("start")
    /\ proc = InitProc
    /\ kv = EmptyMap
    /\ runs = 0
    /\ msg = InitMessage
    /\ prev = "other"
    /\ before = NoContents
    /\ table = [date |-> [month |-> 2, day |-> 28], loading |-> FALSE, error |-> <<"null">>,
                 data |-> <<>>, requests |-> <<>>]

InitCommon ==
    /\ InitStores
    /\ cronSecret = [set |-> TRUE, value |-> "s3cr3t"]
    /\ live = {1}
    /\ job = [i \in live |-> IdleJob]

Init ==
    /\ InitCommon
    /\ deployment \in {"server", "vercel"}
    /\ host \in (IF deployment = "server" THEN ServerHosts ELSE CronHosts)
    /\ broker = FreeBroker
    /\ lastResult = "none"

ServerNext ==
    \/ StartConsumer
    \/ ConnectOk
    \/ SubscribeOk
    \/ RunOk
    \/ StartFails
    \/ Listen
    \/ ListenThrows
    \/ StartCatch
    \/ Signal
    \/ StopConsumerResolves
    \/ StopConsumerRejects
    \/ ServerMessage

CronNext ==
    \/ \E i \in live : Invoke(i)
    \/ \E i \in live : CronConnectOk(i)
    \/ \E i \in live : CronConnectFail(i)
    \/ \E i \in live : CronSubscribeOk(i)
    \/ \E i \in live : CronSubscribeFail(i)
    \/ \E i \in live : TimerFires(i)
    \/ \E i \in live : RunResolves(i)
    \/ \E i \in live : RunRejects(i)
    \/ \E i \in live : SetSyncOk(i)
    \/ \E i \in live : SetSyncFail(i)
    \/ \E i \in live : DisconnectOk(i)
    \/ \E i \in live : DisconnectFail(i)
    \/ \E i \in live : CatchDisconnectDone(i)
    \/ \E i \in live : CronMessage(i)
    \/ \E i \in live : KvSetOk(i)
    \/ \E i \in live : SaddOk(i)
    \/ \E i \in live : KvWriteFails(i)

Next == ServerNext \/ CronNext

Spec == Init /\ [][Next]_vars

\* the long-running process alone
ServerInit ==
    /\ InitCommon
    /\ deployment = "server"
    /\ host \in ServerHosts
    /\ broker = FreeBroker
    /\ lastResult = "none"
ServerSpec == ServerInit /\ [][ServerNext]_vars
\* start() goes on after await startConsumer(), and its catch after a
\* rejection: microtasks run
ServerFairSpec == ServerSpec /\ WF_vars(Listen) /\ WF_vars(ListenThrows) /\ WF_vars(StartCatch)

\* the logs a run can replay: up to MaxLog dated messages, two of one key
ReplayMessages ==
    { Message(cables, "object", TRUE, D27, b, 0) : b \in Bodies }
    \cup { Message(exchanges, "object", TRUE, D27, "A", 0) }
ReplayLogs == UNION { [1..n -> ReplayMessages] : n \in 1..MaxLog }
\* the cron function over a fixed log that every run reads from its start
ReplayInit ==
    /\ InitCommon
    /\ deployment = "vercel"
    /\ host = PlainHost
    /\ broker \in { [FreeBroker EXCEPT !.free = FALSE, !.log = l] : l \in ReplayLogs }
    /\ lastResult = "unobserved"
ReplaySpec == ReplayInit /\ [][CronNext]_vars

\* both deployments on hosts that differ in KAFKA_TOPICS (and in whether
\* the port can be bound)
ConfiguredInit ==
    /\ InitCommon
    /\ deployment \in {"server", "vercel"}
    /\ host \in {[PlainHost EXCEPT !.topics = tl, !.portOk = p] :
                    tl \in ConfiguredTopicLists,
                    p \in IF deployment = "server" THEN BOOLEAN ELSE {TRUE}}
    /\ broker = FreeBroker
    /\ lastResult = "unobserved"
ConfiguredSpec == ConfiguredInit /\ [][Next]_vars

\* the cron function deployed without CRON_SECRET
NoSecretInit ==
    /\ InitStores
    /\ cronSecret = [set |-> FALSE, value |-> ""]
    /\ live = {1}
    /\ job = [i \in live |-> IdleJob]
    /\ deployment = "vercel"
    /\ host = PlainHost
    /\ broker = FreeBroker
    /\ lastResult = "unobserved"
NoSecretSpec == NoSecretInit /\ [][CronNext]_vars

\* a table component in the browser, mounted by App with its initial date
UiInit ==
    /\ InitStores
    /\ cronSecret = [set |-> TRUE, value |-> "s3cr3t"]
    /\ live = {1}
    /\ job = [i \in live |-> IdleJob]
    /\ deployment = "browser"
    /\ host = PlainHost
    /\ broker = FreeBroker
    /\ lastResult = "unobserved"
UiSpec ==
    UiInit /\ [][\/ \E d \in {[month |-> 2, day |-> 27], [month |-> 2, day |-> 28],
                              [month |-> 3, day |-> 1]} : loadData(d)
                 \/ \E n \in 1..MaxFetches : loadDataResumes(n)]_vars

\* two invocations of the cron function that can overlap, over a fixed log
OverlapInit ==
    /\ InitStores
    /\ cronSecret = [set |-> TRUE, value |-> "s3cr3t"]
    /\ live = Slots
    /\ job = [i \in live |-> IdleJob]
    /\ deployment = "vercel"
    /\ host = PlainHost
    /\ broker \in { [FreeBroker EXCEPT !.free = FALSE, !.log = l] : l \in ReplayLogs }
    /\ lastResult = "unobserved"
OverlapSpec == OverlapInit /\ [][CronNext]_vars

\* both consumers fed the same messages
ReplicaInit ==
    /\ InitCommon
    /\ deployment = "both"
    /\ host = PlainHost
    /\ broker = FreeBroker
    /\ lastResult = "none"
ReplicaSpec == ReplicaInit /\ [][ApplyBoth]_vars

\* Scheduling of the cron function: every await of handler() and of
\* eachMessage settles (the store and the broker client answer or time
\* out) and the 25 s timer fires; the promise of consumer.run() need never
\* settle and messages need never stop arriving.
Fairness ==
    /\ WF_vars(TimerFires(1))
    /\ WF_vars(CronConnectOk(1) \/ CronConnectFail(1))
    /\ WF_vars(CronSubscribeOk(1) \/ CronSubscribeFail(1))
    /\ WF_vars(SetSyncOk(1) \/ SetSyncFail(1))
    /\ WF_vars(DisconnectOk(1) \/ DisconnectFail(1))
    /\ WF_vars(CatchDisconnectDone(1))
    /\ WF_vars(KvSetOk(1) \/ SaddOk(1) \/ KvWriteFails(1))

\* the cron function alone, without the stream observation
CronInit ==
    /\ InitCommon
    /\ deployment = "vercel"
    /\ host \in CronHosts
    /\ broker = FreeBroker
    /\ lastResult = "unobserved"
FairSpec == CronInit /\ [][CronNext]_vars /\ Fairness

\* ---------------------------------------------------------------- claims
\* what a read of key (topic, date) returns in the running deployment
ReadEntry(topic, date) ==
    IF deployment = "server" THEN getDataForDate(topic, date)
    ELSE kvReadEntry(kv, topic, date)

\* the entries and date sets of the durable store (everything but lastSyncAt)
kvData == [k \in (DOMAIN kv) \ {lastSyncAtKey} |-> kv[k]]

\* C1: last-write-wins in both stores: once a dated message has been
\* applied, a read of its key returns that message's document, whatever
\* the key held before.
LastWriteWins ==
    lastResult = "applied" => ReadEntry(msg.topic, msg.date) = Doc(JSONparse(msg))

\* C1 witness: in the durable store, the applied message replaced a
\* different document of its key.
LastWriteWinsWitness ==
    /\ deployment = "vercel"
    /\ lastResult = "applied"
    /\ msg \in DatedMessages
    /\ before.entries[msg.topic][msg.date] # Null
    /\ before.entries[msg.topic][msg.date] # Doc(JSONparse(msg))
    /\ ReadEntry(msg.topic, msg.date) = Doc(JSONparse(msg))

\* C2: idempotence: when the message applied last is handed over and
\* applied again, the cache contents (entries and date lists) are those
\* after the first application.
Idempotence ==
    (lastResult = "applied" /\ prev = "again") => Contents = before

\* C2 witness: in the durable store, a message has been applied twice in a row.
IdempotenceWitness ==
    /\ deployment = "vercel"
    /\ lastResult = "applied"
    /\ prev = "again"
    /\ ReadEntry(msg.topic, msg.date) # Null

\* the dates with a stored entry and the dates reported, for a topic
EntryDates(t) == {d \in Dates : ReadEntry(t, d) # Null}
ReportedDates(t) ==
    IF deployment = "server"
    THEN {getAvailableDates(t)[n] : n \in 1..Len(getAvailableDates(t))}
    ELSE kvSmembers(kv, datesKeyOf(t))

\* C3: index/entry consistency in every reachable state: the dates
\* reported for a topic are exactly the dates that have a stored entry.
IndexEntryConsistency ==
    \A t \in Topics : ReportedDates(t) = EntryDates(t)

\* the authorization header the cron function expects
ExpectedBearer ==
    [present |-> TRUE,
     value |-> IF cronSecret.set THEN "Bearer " \o cronSecret.value ELSE "Bearer undefined"]

\* C4: authorization gate: an invocation whose authorization header is not
\* the expected bearer value answers 401 within its first step, without a
\* consumer, a broker call or a store write.
AuthorizationGate ==
    [][\A i \in live :
        (runs' = runs + 1 /\ job'[i].authorization # ExpectedBearer)
        => /\ job'[i].pc = "done"
           /\ job'[i].response.status = 401
           /\ ~job'[i].consumer
           /\ job'[i].calls = NoCalls
           /\ job'[i].runner = "off"
           /\ kv' = kv]_vars

\* C4 witness: a rejected invocation after an earlier one filled the store.
AuthorizationGateWitness ==
    /\ job[1].pc = "done"
    /\ job[1].response.status = 401
    /\ job[1].authorization = [present |-> TRUE, value |-> "Bearer wrong"]
    /\ kvData # EmptyMap

\* C5: bounded termination: an authorized invocation that has connected
\* eventually sends its response, although messages never stop arriving
\* and consumer.run() may never settle.
BoundedTermination ==
    (job[1].pc = "subscribe") ~> (job[1].pc = "done")

\* C5 witness: the success response of an invocation that went through the
\* race and applied a message.
BoundedTerminationWitness ==
    /\ job[1].pc = "done"
    /\ job[1].calls.run = 1
    /\ job[1].response.status = 200
    /\ job[1].messageCount >= 1

\* the race of an invocation has ended
RaceOver(i) == job[i].calls.run = 1 /\ job[i].pc # "race"

\* C6: no writes after cancellation: once the race has ended the invocation
\* writes no entry and no date-set member.
NoWriteAfterRace ==
    [][\A i \in live : RaceOver(i) => kvData' = kvData]_vars

\* C7: SyncClock discipline: lastSyncAt is written at most once per
\* invocation, only by an invocation that got through the race, and no
\* entry or date-set write follows it in that invocation.
SyncClockDiscipline ==
    [][\A i \in live :
        /\ job'[i].syncWrites <= 1
        /\ (job'[i].syncWrites = 1 => job'[i].calls.run = 1)
        /\ (job[i].syncWrites = 1 /\ runs' = runs => kvData' = kvData)]_vars

\* C8: session release: an invocation that created a consumer and called
\* connect has called disconnect by the time it responds.
SessionReleased ==
    \A i \in live :
        (job[i].pc = "done" /\ job[i].calls.connect >= 1) => job[i].calls.disconnect >= 1

\* C8 witness: a response after subscribe failed, with disconnect called.
SessionReleasedWitness ==
    /\ job[1].pc = "done"
    /\ job[1].err = "subscribe"
    /\ job[1].calls.disconnect = 1

BadMessageStep ==
    /\ msg' \in BadMessages
    /\ lastResult' # "none"
    /\ msg' # msg \/ lastResult' # lastResult

\* C10: skip-and-continue: a message that is absent, unparseable, null or
\* without a date is skipped: no store write, no change of lastMessageAt or
\* of the consumer status, and the consumer and the invocation are left as
\* they were, so later messages are processed.
SkipAndContinue ==
    [][BadMessageStep
        => /\ lastResult' = "skipped"
           /\ dataStore' = dataStore
           /\ kv' = kv
           /\ lastMessageAt' = lastMessageAt
           /\ consumerStatus' = consumerStatus
           /\ startPc' = startPc
           /\ job' = job]_vars

\* C10 witness: in the durable store, a dated message applied right after a
\* skipped one.
SkipAndContinueWitness ==
    /\ deployment = "vercel"
    /\ lastResult = "applied"
    /\ prev = "afterSkip"
    /\ ReadEntry(msg.topic, msg.date) = Doc(JSONparse(msg))

\* the error statuses startConsumer() assigns
ErrorStatuses ==
    {"error: missing SSL certs", "error: connect", "error: subscribe", "error: run"}
\* the order disconnected -> connecting -> connected
StatusRank(st) ==
    CASE st = "disconnected" -> 0
      [] st = "connecting" -> 1
      [] st = "connected" -> 2
      [] OTHER -> 3

\* C11: the consumer status is monotonic within a session: it only moves
\* forward in disconnected -> connecting -> connected or to an error
\* status (closing the session from a status that is no error ends the
\* session), and an error status never changes again.
StatusMonotonic ==
    [][consumerStatus' # consumerStatus
        => /\ consumerStatus \notin ErrorStatuses
           /\ \/ consumerStatus' \in ErrorStatuses
              \/ consumerStatus' = "disconnected"
              \/ StatusRank(consumerStatus') > StatusRank(consumerStatus)]_vars

\* a broker call of startConsumer() rejected while connecting or subscribing
FailedStart == proc.rejected \in {"connect", "subscribe"}

\* C12: degraded but observable start: when connect or subscribe fails,
\* startConsumer() returns without throwing, the status read by GET
\* /status is the error status carrying the reason for as long as the
\* process lives, the failure does not end the process, and the HTTP server
\* starts listening (on a host whose port can be bound, unless a shutdown
\* signal came first).
DegradedStart ==
    /\ [](FailedStart => startPc = At("returned"))
    /\ []((FailedStart /\ Alive) => getStatus.status = "error: " \o proc.rejected)
    /\ []((FailedStart /\ host.portOk /\ proc.signals = 0) => proc.exit = "none")
    /\ ((FailedStart /\ host.portOk) ~> (proc.start = "listening" \/ proc.signals > 0))

\* C12 witness: the server listens and reports the error of a failed subscribe.
DegradedStartWitness ==
    /\ proc.rejected = "subscribe"
    /\ proc.start = "listening"
    /\ proc.exit = "none"
    /\ getStatus.status = "error: subscribe"

\* fewer than three base64 values and a file that is missing or unreadable
CredentialsIncomplete == host.b64 # CertVars /\ host.files # AllFiles("ok")

\* C13: incomplete credentials never reach the network: no consumer is
\* created, connected or subscribed and no store is written; the
\* long-running consumer ends in an error status and an authorized
\* invocation of the cron function answers 500.
NoNetworkWithoutCredentials ==
    CredentialsIncomplete
    => /\ ~kafkaConsumer
       /\ proc.ssl = Null
       /\ dataStore = EmptyMap
       /\ kv = EmptyMap
       /\ \A i \in live : job[i].calls = NoCalls /\ ~job[i].consumer
       /\ (deployment = "server" /\ startPc # At("start")) => consumerStatus \in ErrorStatuses
       /\ \A i \in live :
            (job[i].pc = "done" /\ job[i].authorization = ExpectedBearer)
            => job[i].response.status = 500

\* the bundles built from one source only
EnvBundle == [v \in CertVars |-> <<"env", v>>]
FileBundle == [v \in CertVars |-> <<"file", v>>]

\* C14: credential precedence and no partial use: the bundle handed to
\* the broker client is built from the three base64 values when all three
\* are set, whatever files exist, and from the three files only when a
\* base64 value is missing.
CredentialPrecedence ==
    proc.ssl # Null
    => proc.ssl = IF host.b64 = CertVars THEN EnvBundle ELSE FileBundle

\* C14 witness: both sources are complete and the consumer was created
\* with the bundle of the base64 values.
CredentialPrecedenceWitness ==
    /\ host.b64 = CertVars
    /\ host.files = AllFiles("ok")
    /\ kafkaConsumer
    /\ proc.ssl = EnvBundle

\* C15: file-path fallback for every consumer: with an incomplete base64
\* source and three readable files, the long-running consumer is created
\* with the file contents and an authorized invocation of the cron function
\* does not fail on its credentials.
FileFallback ==
    (host.b64 # CertVars /\ host.files = AllFiles("ok"))
    => /\ (deployment = "server" /\ startPc # At("start")) => proc.ssl = FileBundle
       /\ \A i \in live :
            (job[i].pc # "idle" /\ job[i].authorization = ExpectedBearer)
            => job[i].err # "certs"

\* dates a request can carry: those of the messages, a day without
\* messages, one with a letter, and none
D01 == <<"2", "0", "2", "6", "-", "0", "3", "-", "0", "1">>
DLetter == <<"2", "0", "2", "6", "-", "0", "a", "-", "2", "7">>
RequestDates == Dates \cup {DStamp, D01, DLetter, <<>>}
\* those of four digits, dash, two digits, dash, two digits
WellFormedDates == {D27, D28, D01}

\* the topics with a per-date endpoint in the running deployment: both
\* routes of server.js, and api/exchanges/[date].js
Endpoints == IF deployment = "server" THEN Topics ELSE {exchanges}

\* the response of GET /<topic>/<date> in the running deployment
GetDate(topic, date) ==
    IF deployment = "server" THEN serverGetDate(topic, date) ELSE kvGetDate(kv, topic, date)

\* C16: date validation precedes store access: a request whose date is
\* not of the form YYYY-MM-DD is answered 400 without a store read, in
\* both deployments and for every endpoint.
DateValidationFirst ==
    \A t \in Endpoints : \A d \in RequestDates \ WellFormedDates :
        /\ GetDate(t, d).status = 400
        /\ GetDate(t, d).reads = 0

\* C16 witness: the durable store holds an entry under the unpadded date,
\* and the request for that date is answered 400.
DateValidationFirstWitness ==
    /\ deployment = "vercel"
    /\ kvGet(kv, keyOf(exchanges, DShort)) # Null
    /\ GetDate(exchanges, DShort).status = 400
    /\ GetDate(exchanges, DShort).reads = 0

\* C17: miss shape: a request for a well-formed date without a stored
\* entry is answered 200 with {date, source, data: [], available_dates},
\* where available_dates is the sorted list of the dates stored for the topic.
MissShape ==
    \A t \in Endpoints : \A d \in WellFormedDates :
        ReadEntry(t, d) = Null
        => /\ GetDate(t, d).status = 200
           /\ GetDate(t, d).body = missShape(d, t, sortedStrings(EntryDates(t)))

\* the dates a read can ask both stores for
ReplicaDates == Dates \cup {DStamp, D01}

\* C18: one read contract over two stores: after the same messages have
\* been applied to both, the in-memory and the durable read path return
\* the same entry for every key and the same sorted date list for every topic.
ReadContract ==
    deployment = "both"
    => \A t \in Topics :
        /\ \A d \in ReplicaDates : getDataForDate(t, d) = kvReadEntry(kv, t, d)
        /\ getAvailableDates(t) = kvAvailableDates(kv, t)

\* C19: graceful shutdown ordering: when process.exit is called and a
\* broker consumer was created, a disconnect of it has completed.
ShutdownOrdering ==
    (proc.exit \in {"0", "1"} /\ kafkaConsumer) => proc.disconnected

\* C20: repeated runs are safe: during and after a run that replays a log
\* which an earlier run applied in full, a read of every key returns what
\* it returned when the run started.
ReplaySafe ==
    broker.replay => kvContents(kv).entries = broker.atStart


\* C21: overlapping invocations converge: after two invocations that ran
\* over the same log have both finished, every stored entry is the whole
\* document of one message of the log for that key, its date is in the
\* date set of its topic, and every date of a date set has its entry.
OverlapConverges ==
    LET \* both invocations went through consumer.run and nothing of them
        \* is left running
        OverlapFinished ==
            \A i \in live : /\ job[i].pc = "done"
                            /\ job[i].calls.run = 1
                            /\ job[i].runner \in {"off", "idle"}
        \* the documents the log holds for a key
        LogDocs(t, d) ==
            { Doc(JSONparse(broker.log[n])) :
                n \in { k \in 1..Len(broker.log) : /\ acceptsMessage(broker.log[k])
                                                    /\ broker.log[k].topic = t
                                                    /\ broker.log[k].date = d } }
    IN  OverlapFinished =>
        \A t \in Topics : \A d \in Dates :
            /\ kvReadEntry(kv, t, d) # Null =>
                  /\ kvReadEntry(kv, t, d) \in LogDocs(t, d)
                  /\ d \in kvSmembers(kv, datesKeyOf(t))
            /\ d \in kvSmembers(kv, datesKeyOf(t)) => kvReadEntry(kv, t, d) # Null


\* C22: connection failure in the bounded job: an invocation whose connect
\* or subscribe failed has called connect once, never calls run, writes
\* neither an entry nor a date nor lastSyncAt, and responds 500.
ConnectionFailure ==
    [][\A i \in live :
          /\ job'[i].calls.run = 0 => kv' = kv
          /\ job'[i].err \in {"connect", "subscribe"} =>
                /\ job'[i].calls.connect = 1
                /\ job'[i].calls.run = 0
                /\ job'[i].syncWrites = 0
                /\ job'[i].pc \in {"catch", "done"}
                /\ job'[i].pc = "done" => job'[i].response.status = 500]_vars

\* C22 witness: the 500 response of an invocation whose subscribe failed,
\* after an earlier invocation filled the store.
ConnectionFailureWitness ==
    \E i \in live :
        /\ job[i].pc = "done"
        /\ job[i].err = "subscribe"
        /\ job[i].response.status = 500
        /\ kvContents(kv) # NoContents


\* C23: date lists are sorted and exact: whatever the arrival order, the
\* list of dates of a topic holds each date with a stored entry of that
\* topic once, in ascending order, and nothing else, in both stores.
DateListsExact ==
    LET \* the dates under which a topic has a stored entry, in each store
        StoredDates(t) == {d \in ReplicaDates : getDataForDate(t, d) # Null}
        KvStoredDates(t) == {d \in ReplicaDates : kvReadEntry(kv, t, d) # Null}
    IN  deployment = "both"
    => \A t \in Topics :
        /\ getAvailableDates(t) = sortedStrings(StoredDates(t))
        /\ kvAvailableDates(kv, t) = sortedStrings(KvStoredDates(t))


\* C24: store failure fallback of the status endpoint: whichever store
\* read of GET /status fails in the durable topology, the handler answers
\* with status 500, cachedEntries 0, lastMessageAt null and empty date
\* lists for both topics.
StatusFallback ==
    deployment = "vercel"
    => \A f \in Failures :
        /\ kvStatus(kv, f).status = 500
        /\ kvStatus(kv, f).body.cachedEntries = 0
        /\ kvStatus(kv, f).body.lastMessageAt = Null
        /\ kvStatus(kv, f).body.availableDates = [cables |-> <<>>, exchanges |-> <<>>]

\* C24 witness: the store holds lastSyncAt and dates, which the status
\* endpoint reports when its reads are answered, and its last read fails.
StatusFallbackWitness ==
    /\ deployment = "vercel"
    /\ lastSyncAtKey \in DOMAIN kv
    /\ kvStatus(kv, NoFailure).body.cachedEntries > 0
    /\ kvStatus(kv, [at |-> 3, message |-> "ECONNRESET"]).status = 500

\* C25: no internal error detail in read API responses: two store
\* failures at the same read that differ in their error message get the
\* same response from each durable endpoint (status, dates, per date).
NoErrorDetail ==
    deployment = "vercel"
    => \A f, g \in Failures :
        f.at = g.at =>
            /\ kvStatus(kv, f) = kvStatus(kv, g)
            /\ kvDates(kv, f) = kvDates(kv, g)
            /\ \A t \in Endpoints : \A d \in RequestDates :
                  kvGetDateFailing(kv, t, d, f) = kvGetDateFailing(kv, t, d, g)


\* C26: outcome metric: the count of an invocation starts at 0, goes up
\* by one exactly in the steps that complete both writes of a message
\* (not when a message is skipped or a write fails), and a success
\* response returns that count as messagesProcessed.
OutcomeMetric ==
    [][LET \* the step completes the date-set write of the message invocation
           \* i is handling, its entry write having completed before
           CompletesBothWrites(i) ==
               /\ job[i].runner = "sadd"
               /\ job'[i].runner = "idle"
               /\ lastResult' = "applied"
               /\ job[i].cur.doc.date \in kvSmembers(kv', datesKeyOf(job[i].cur.topic))
               /\ kvReadEntry(kv', job[i].cur.topic, job[i].cur.doc.date) # Null
       IN
       \A i \in live :
          /\ runs' # runs => job'[i].messageCount = 0
          /\ runs' = runs =>
                job'[i].messageCount =
                    job[i].messageCount + (IF CompletesBothWrites(i) THEN 1 ELSE 0)
          /\ job'[i].response.status = 200 =>
                job'[i].response.messagesProcessed = job'[i].messageCount]_vars

\* C26 witness: a success response that reports one message, of an
\* invocation whose last message had a failing write.
OutcomeMetricWitness ==
    \E i \in live :
        /\ job[i].pc = "done"
        /\ job[i].response.status = 200
        /\ job[i].response.messagesProcessed = 1
        /\ lastResult = "failed"


\* C27: every listed date is retrievable: in the in-memory server each
\* date that getAvailableDates lists for a topic has an entry, and GET
\* /api/<topic>/<date> answers with that entry.
ListedRetrievable ==
    deployment = "server"
    => \A t \in Topics : \A n \in 1..Len(getAvailableDates(t)) :
          /\ getDataForDate(t, getAvailableDates(t)[n]) # Null
          /\ serverGetDate(t, getAvailableDates(t)[n]).status = 200
          /\ serverGetDate(t, getAvailableDates(t)[n]).body
                = getDataForDate(t, getAvailableDates(t)[n])


\* C28: status count consistency: cachedEntries of the status snapshot is
\* the number of dates in its two date lists, in both topologies and
\* whatever topic list is configured.
StatusCountConsistent ==
    LET \* the number of dates in the two lists of a status snapshot
        ListedCount(snapshot) ==
            Len(snapshot.availableDates.cables) + Len(snapshot.availableDates.exchanges)
    IN
    /\ deployment = "server" => getStatus.cachedEntries = ListedCount(getStatus)
    /\ deployment = "vercel" =>
          kvStatus(kv, NoFailure).body.cachedEntries = ListedCount(kvStatus(kv, NoFailure).body)


\* C29: an unconfigured secret authorizes nobody: while CRON_SECRET is
\* not set, no invocation calls the broker (connect, subscribe, run,
\* disconnect) and the store stays empty, whatever header a request carries.
UnconfiguredSecret ==
    ~cronSecret.set =>
        /\ \A i \in live : job[i].calls = NoCalls /\ ~job[i].consumer
        /\ kv = EmptyMap


\* C30: every request is answered: once the server listens, each GET
\* request (a defined route, an undefined path under /api, any other
\* path) gets exactly one response.
EveryRequestAnswered ==
    LET apiary == <<"a", "p", "i", "a", "r", "y">>
        unknownSegment == <<"u", "n", "k", "n", "o", "w", "n">>
        \* GET requests: the defined routes, undefined paths under /api, a
        \* path whose first segment only begins with api, and paths
        \* outside /api
        RequestPaths ==
            {<<api, statusSegment>>, <<api, datesSegment>>, <<api>>,
             <<api, unknownSegment>>, <<api, cables>>, <<apiary>>, <<>>,
             <<indexHtml>>, <<unknownSegment>>}
            \cup {<<api, t, d>> : t \in Topics, d \in RequestDates}
            \cup {<<api, unknownSegment, D27>>}
    IN
    (deployment = "server" /\ proc.start = "listening")
    => \A path \in RequestPaths : \A dist \in DistContents :
          serverRoute(path, dist).responses = 1


\* C31: no stale fetch result in the tables: a request that settles after
\* the date has changed again (it is not the latest request) leaves the
\* table's data, error and loading as they are, whatever the order of
\* arrival; and once all requests have settled the table shows the
\* outcome of the request for the date selected last, with loading false.
NoStaleFetch ==
    /\ [][\A n \in 1..Len(table.requests) :
             (/\ n < Len(table.requests)
              /\ table.requests[n].pending
              /\ ~table'.requests[n].pending)
             => /\ table'.data = table.data
                /\ table'.error = table.error
                /\ table'.loading = table.loading]_vars
    /\ [](LET last == table.requests[Len(table.requests)]
          IN  (/\ Len(table.requests) >= 2
               /\ \A n \in 1..Len(table.requests) : ~table.requests[n].pending)
              => /\ table.loading = FALSE
                 /\ table.data = last.data
                 /\ table.error = last.error
                 /\ \A k \in 1..Len(table.data) : table.data[k].id = last.dateStr)

\* C31 witness: the date changed while the first request was in flight,
\* the first response (with records) arrived after the second, and the
\* table shows the records of the second date.
NoStaleFetchWitness ==
    /\ Len(table.requests) = 2
    /\ table.requests[1].order = 2
    /\ table.requests[1].ok
    /\ table.requests[1].data # <<>>
    /\ table.requests[2].order = 1
    /\ table.requests[2].ok
    /\ table.data # <<>>
    /\ table.data = table.requests[2].data
    /\ table.data # table.requests[1].data
    /\ ~table.loading


\* C32: the hour-key lookup covers both conventions: for every record the
\* table holds, if its times are keyed "1".."24" column h shows times[h];
\* if they are keyed "0".."23" column h shows times[h-1]; a column whose
\* hour has no key under either convention shows 0.
HourKeyLookup ==
    \A k \in 1..Len(table.data) :
        LET times == table.data[k].times
            row == get24HourPrices(table.data[k])
        IN  /\ DOMAIN times = {String(i) : i \in 1..24}
                => \A h \in 1..24 : row[h] = times[String(h)]
            /\ DOMAIN times = {String(i) : i \in 0..23}
                => \A h \in 1..24 : row[h] = times[String(h - 1)]
            /\ \A h \in 1..24 :
                  ({String(h), String(h - 1)} \cap DOMAIN times = {}) => row[h] = 0

====
